---- MODULE Spec2Model ----
(***************************************************************************)
(* Model of the <enhance-form> custom element (class EnhanceForm): the     *)
(* request/response orchestration of per-field validation requests and     *)
(* whole-form submission requests, the abort controllers that cancel       *)
(* them, the interpretation of the response and the replacement of nodes   *)
(* of the live document.                                                   *)
(*                                                                         *)
(* The DOM is a table of nodes (a sequence of records, a node is its       *)
(* index); every node keeps its parent and the ordered list of its         *)
(* children, so document order, querySelector, closest and replaceWith     *)
(* are computed as the browser computes them.  Node 1 is the live          *)
(* document.  A response body is a document of its own (a table of the     *)
(* same shape); the subtree that replaceWith moves into the live document  *)
(* is appended to the live table.                                          *)
(***************************************************************************)
EXTENDS Integers, Sequences, FiniteSets, TLC

\* Bound on the number of AbortControllers created, that is on the number of
\* handler runs (blur with a value, submit) of one behaviour.
MaxControllers == 2

\* The key of the submission channel in the controllers map.
FormKey == "form"

\* Names of the fields of the form.  One field is named like the submission
\* channel key.
FieldNames == {"a", "form"}

\* Keys that can occur in the controllers map.
Keys == FieldNames \cup {FormKey}

\* Values an input can hold when it loses focus.
Values == {"", "x"}

\* target / fail-target selectors of the layouts.
TargetId == "t"
FailId == "f"

----------------------------------------------------------------------------
(* Nodes and documents *)

Node(tag, id, group, name, validate, invalid, parent, kids) ==
  [tag |-> tag, id |-> id, group |-> group, name |-> name,
   validate |-> validate, invalid |-> invalid, parent |-> parent,
   kids |-> kids, blur |-> 0, submit |-> 0]

\* The form of the page, as a subtree of seven nodes starting at index b under
\* parent p: a group with two controls of one name, and a group nested in a
\* fieldset; inv is the aria-invalid state the server rendered.
FormNodes(b, p, inv) ==
  << Node("form", "", FALSE, "", FALSE, FALSE, p, <<b + 1, b + 4>>),
     Node("fieldset", "", TRUE, "", FALSE, FALSE, b, <<b + 2, b + 3>>),
     Node("input", "", FALSE, "a", TRUE, inv, b + 1, <<>>),
     Node("input", "", FALSE, "a", TRUE, FALSE, b + 1, <<>>),
     Node("fieldset", "", FALSE, "", FALSE, FALSE, b, <<b + 5>>),
     Node("div", "", TRUE, "", FALSE, FALSE, b + 4, <<b + 6>>),
     Node("textarea", "", FALSE, "form", TRUE, FALSE, b + 5, <<>>) >>

Layouts == {"ancestor", "sibling", "inner"}

\* The page the server renders, per layout.
\*  ancestor: the component sits inside the element the target selects
\*  sibling : the target and fail-target elements are siblings of the component
\*  inner   : the target and fail-target elements are children of the component
Page(layout, inv) ==
  CASE layout = "ancestor" ->
         << Node("#document", "", FALSE, "", FALSE, FALSE, 0, <<2>>),
            Node("main", TargetId, FALSE, "", FALSE, FALSE, 1, <<3>>),
            Node("enhance-form", "", FALSE, "", FALSE, FALSE, 2, <<4>>) >>
         \o FormNodes(4, 3, inv)
    [] layout = "sibling" ->
         << Node("#document", "", FALSE, "", FALSE, FALSE, 0, <<2, 10, 11>>),
            Node("enhance-form", "", FALSE, "", FALSE, FALSE, 1, <<3>>) >>
         \o FormNodes(3, 2, inv)
         \o << Node("div", TargetId, FALSE, "", FALSE, FALSE, 1, <<>>),
               Node("div", FailId, FALSE, "", FALSE, FALSE, 1, <<>>) >>
    [] layout = "inner" ->
         << Node("#document", "", FALSE, "", FALSE, FALSE, 0, <<2>>),
            Node("enhance-form", "", FALSE, "", FALSE, FALSE, 1, <<3, 10, 11>>) >>
         \o FormNodes(3, 2, inv)
         \o << Node("div", TargetId, FALSE, "", FALSE, FALSE, 2, <<>>),
               Node("div", FailId, FALSE, "", FALSE, FALSE, 2, <<>>) >>

\* Index of the <enhance-form> element in Page(layout, _).
ComponentOf(layout) == IF layout = "ancestor" THEN 3 ELSE 2

\* Value of the fail-target attribute per layout ("" when absent).
FailAttrOf(layout) == IF layout = "ancestor" THEN "" ELSE "#" \o FailId

\* A response that only holds the success and the error fragment.
Fragment ==
  << Node("#document", "", FALSE, "", FALSE, FALSE, 0, <<2, 3>>),
     Node("div", TargetId, FALSE, "", FALSE, FALSE, 1, <<>>),
     Node("div", FailId, FALSE, "", FALSE, FALSE, 1, <<>>) >>

\* A response with no form, no group and no target.
Bare ==
  << Node("#document", "", FALSE, "", FALSE, FALSE, 0, <<2>>),
     Node("p", "", FALSE, "", FALSE, FALSE, 1, <<>>) >>

Bodies == {"page", "fragment", "bare"}

\* parser.parseFromString(await response.text(), "text/html")
Parse(body, layout) ==
  CASE body = "page" -> Page(layout, TRUE)
    [] body = "fragment" -> Fragment
    [] body = "bare" -> Bare

----------------------------------------------------------------------------
(* Tree walks *)

RECURSIVE Pre(_, _), PreKids(_, _)
\* The subtree of n in document order, n first.
Pre(d, n) == <<n>> \o PreKids(d, d[n].kids)
PreKids(d, ks) ==
  IF ks = <<>> THEN <<>> ELSE Pre(d, Head(ks)) \o PreKids(d, Tail(ks))

\* The descendants of n in document order.
Descendants(d, n) == Tail(Pre(d, n))

Range(s) == {s[i] : i \in 1..Len(s)}

RECURSIVE RootOf(_, _)
RootOf(d, n) == IF d[n].parent = 0 THEN n ELSE RootOf(d, d[n].parent)

\* Node n is connected: it is in the live document (node 1).
IsLive(d, n) == RootOf(d, n) = 1

----------------------------------------------------------------------------
(* Selectors *)

SelForm == [kind |-> "tag", arg |-> "form"]
SelValidate == [kind |-> "validate", arg |-> ""]
SelInvalid == [kind |-> "invalid", arg |-> ""]
\* `:is([enhance-form-group], fieldset):has([name="${target.name}"])`
GroupSelector(name) == [kind |-> "group", arg |-> name]

\* Does the selector string parse?  "" is a syntax error.
SelectorValid(sel) == sel # ""

\* A selector string "#x" of the target attributes, as a selector.
SelOfString(s) == [kind |-> "id", arg |-> s]

Matches(d, n, sel) ==
  CASE sel.kind = "tag" -> d[n].tag = sel.arg
    [] sel.kind = "id" -> d[n].id # "" /\ "#" \o d[n].id = sel.arg
    [] sel.kind = "validate" -> d[n].tag \in {"input", "textarea"} /\ d[n].validate
    [] sel.kind = "invalid" -> d[n].tag \in {"input", "textarea"} /\ d[n].invalid
    [] sel.kind = "group" ->
         /\ d[n].group \/ d[n].tag = "fieldset"
         /\ \E m \in Range(Descendants(d, n)) : d[m].name = sel.arg

RECURSIVE FirstMatch(_, _, _)
FirstMatch(d, ns, sel) ==
  IF ns = <<>> THEN 0
  ELSE IF Matches(d, Head(ns), sel) THEN Head(ns)
  ELSE FirstMatch(d, Tail(ns), sel)

\* root.querySelector(sel): the first descendant of root in document order
\* that matches, 0 for null.
QuerySelector(d, root, sel) == FirstMatch(d, Descendants(d, root), sel)

\* root.querySelectorAll(sel) as a set.
QuerySelectorAll(d, root, sel) ==
  {n \in Range(Descendants(d, root)) : Matches(d, n, sel)}

RECURSIVE Closest(_, _, _)
\* n.closest(sel): n or its nearest ancestor that matches, 0 for null.
Closest(d, n, sel) ==
  IF Matches(d, n, sel) THEN n
  ELSE IF d[n].parent = 0 THEN 0
  ELSE Closest(d, d[n].parent, sel)

----------------------------------------------------------------------------
(* DOM mutation *)

IndexOf(s, x) == CHOOSE k \in 1..Len(s) : s[k] = x

\* The table d with the subtree of node i of the parsed document html appended
\* as a detached tree whose root is node Len(d) + 1.
Adopt(d, html, i) ==
  LET sub == Pre(html, i)
  IN d \o [k \in 1..Len(sub) |->
            [html[sub[k]] EXCEPT
               !.parent = IF k = 1 THEN 0 ELSE Len(d) + IndexOf(sub, @),
               !.kids = [j \in 1..Len(@) |-> Len(d) + IndexOf(sub, @[j])]]]

\* cur.replaceWith(new), for a detached root new: nothing happens when cur has
\* no parent.
ReplaceWith(d, cur, new) ==
  LET p == d[cur].parent
  IN IF p = 0 THEN d
     ELSE [d EXCEPT
             ![p].kids = [j \in 1..Len(@) |-> IF @[j] = cur THEN new ELSE @[j]],
             ![new].parent = p,
             ![cur].parent = 0]

\* replaceElements(html, selector, replaceRootElement), called on component
\* this.  ret is the returned element, 0 for null; threw: querySelector threw a
\* SyntaxError; cur is the element that replaceWith took out of its parent, 0
\* when nothing was replaced.
ReplaceElements(d, this, html, sel, replaceRootElement) ==
  IF sel.kind = "id" /\ ~SelectorValid(sel.arg)
  THEN [dom |-> d, ret |-> 0, cur |-> 0, threw |-> TRUE]
  ELSE LET newElement == QuerySelector(html, 1, sel)
           currentElement == IF replaceRootElement # 0 THEN replaceRootElement
                             ELSE QuerySelector(d, this, sel)
       IN IF newElement # 0 /\ currentElement # 0
          THEN [dom |-> ReplaceWith(Adopt(d, html, newElement), currentElement,
                                    Len(d) + 1),
                ret |-> Len(d) + 1,
                cur |-> IF d[currentElement].parent # 0 THEN currentElement ELSE 0,
                threw |-> FALSE]
          ELSE [dom |-> d, ret |-> 0, cur |-> 0, threw |-> FALSE]

\* bindEvents(target) on a component whose _form is form; target 0: no
\* argument.  With no argument and a null _form, addEventListener throws.
BindEventsThrows(form, target) == target = 0 /\ form = 0

BindEvents(d, form, target) ==
  IF target # 0
  THEN [d EXCEPT ![target].blur = @ + 1]
  ELSE LET inputs == QuerySelectorAll(d, form, SelValidate)
       IN [n \in DOMAIN d |->
             IF n = form THEN [d[n] EXCEPT !.submit = @ + 1]
             ELSE IF n \in inputs THEN [d[n] EXCEPT !.blur = @ + 1]
             ELSE d[n]]

----------------------------------------------------------------------------
(* The network *)

\* HTTP statuses a response can carry.
Statuses == {200, 204, 422, 500}

\* The X-Enhance-Redirect response header: <<>> when absent (getHeader gives
\* null), else <<value>>.
RedirectHeaders == {<<>>, <<"">>, <<"/next">>}

\* response.url values; "" does not parse as a URL.
LocationOrigin == "https://self"
Urls == {"https://self/done", "https://ext/out", ""}

UrlOrigin(url) ==
  CASE url = "https://self/done" -> "https://self"
    [] url = "https://ext/out" -> "https://ext"

\* isInternalUrl: new URL(url) throws on "" and the catch returns true.
isInternalUrl(url) ==
  IF url = "" THEN TRUE ELSE UrlOrigin(url) = LocationOrigin

\* The test of requestForm with the check of the origin left out.
ExternalRedirectedAny(redirected, url) == redirected

\* The test of requestForm on the response: response.redirected &&
\* !isInternalUrl(response.url).  When it holds requestForm navigates to
\* response.url and gives no document.
ExternalRedirected(redirected, url) == redirected /\ ~isInternalUrl(url)

----------------------------------------------------------------------------
(* State *)

VARIABLES
  layout,               \* the page layout the server renders
  dom,                  \* the node table; node 1 is the live document
  self,                 \* the <enhance-form> element (this)
  _form,                \* this._form, 0 for null
  _targetSelector,      \* this._targetSelector
  _failTargetSelector,  \* this._failTargetSelector
  controllers,          \* this.controllers: key -> controller, 0 for no entry
  ctrls,                \* the AbortControllers created: aborted flag and reason
  reqs,                 \* the fetches made, with their progress
  transitions,          \* view-transition callbacks not yet called
  navLog,               \* arguments of the window.location.assign calls
  warns,                \* number of console.warn calls
  uncaught,             \* number of errors no handler caught
  prevented,            \* number of event.preventDefault calls
  focused,              \* document.activeElement, 0 for the body
  ev                    \* the step taken last

vars == <<layout, dom, self, _form, _targetSelector,
          _failTargetSelector, controllers, ctrls, reqs, transitions, navLog,
          warns, uncaught, prevented, focused, ev>>

NoEvent ==
  [type |-> "init", node |-> 0, value |-> "", req |-> 0, status |-> 0,
   hdr |-> <<>>, body |-> "", sent |-> 0, cur |-> 0, new |-> 0,
   redirected |-> FALSE, url |-> ""]

\* The subtree of the component this instance was constructed for: nodes of
\* another <enhance-form> element belong to that element's own instance.
Owned(d, n) == Closest(d, n, [kind |-> "tag", arg |-> "enhance-form"]) = self

\* constructor() followed by connectedCallback()
Init ==
  /\ layout \in Layouts
  /\ self = ComponentOf(layout)
  /\ _form = QuerySelector(Page(layout, FALSE), ComponentOf(layout), SelForm)
  /\ _targetSelector = "#" \o TargetId
  /\ _failTargetSelector =
       (IF FailAttrOf(layout) # "" THEN FailAttrOf(layout) ELSE "#" \o TargetId)
  /\ dom = BindEvents(Page(layout, FALSE),
                      QuerySelector(Page(layout, FALSE), ComponentOf(layout), SelForm),
                      0)
  /\ controllers = [k \in Keys |-> 0]
  /\ ctrls = <<>>
  /\ reqs = <<>>
  /\ transitions = <<>>
  /\ navLog = <<>>
  /\ warns = 0
  /\ uncaught = 0
  /\ prevented = 0
  /\ focused = 0
  /\ ev = NoEvent

----------------------------------------------------------------------------
(* The synchronous part of the handlers, on the record m of the fields they
   touch: ctrls, controllers, reqs, warns, uncaught, focused *)

\* focusFirstInvalidInput(): threw when this._form is null; focus() of a node
\* that is not connected does nothing.
FocusFirstInvalidInput(d, form, foc) ==
  IF form = 0 THEN [focused |-> foc, threw |-> TRUE]
  ELSE LET firstInvalidInput == QuerySelector(d, form, SelInvalid)
       IN [focused |-> IF firstInvalidInput # 0 /\ IsLive(d, firstInvalidInput)
                       THEN firstInvalidInput ELSE foc,
           threw |-> FALSE]

\* A submit listener that ends with handleFormValidation.
AfterSubmitWithoutFocus(m, d, form) == m

\* The end of the submit listener of bindEvents, after handleFormValidation
\* has settled: this.focusFirstInvalidInput().
AfterSubmit(m, d, form) ==
  LET foc == FocusFirstInvalidInput(d, form, m.focused)
  IN [m EXCEPT !.focused = foc.focused,
               !.uncaught = IF foc.threw THEN @ + 1 ELSE @]

\* abort() of a controller whose signal was not given to fetch: the token is
\* aborted and the request goes on.
AbortUnobserved(m, c, reason, d, form) ==
  IF c = 0 \/ m.ctrls[c].aborted THEN m
  ELSE [m EXCEPT !.ctrls[c] = [aborted |-> TRUE, reason |-> reason]]

\* controller.abort(reason) of controller c (0: no controller, the ?. of the
\* source).  The fetch (or the body read) of the request that was given the
\* signal rejects, its handler logs the warning, and a submit listener goes on
\* to focusFirstInvalidInput.
Abort(m, c, reason, d, form) ==
  IF c = 0 \/ m.ctrls[c].aborted THEN m
  ELSE LET hit == {r \in DOMAIN m.reqs :
                     m.reqs[r].ctrl = c /\ m.reqs[r].stage = "fetch"}
           m1 == [m EXCEPT
                    !.ctrls[c] = [aborted |-> TRUE, reason |-> reason],
                    !.reqs = [r \in DOMAIN @ |->
                                IF r \in hit
                                THEN [@[r] EXCEPT !.stage = "done",
                                                  !.outcome = "aborted"]
                                ELSE @[r]],
                    !.warns = @ + Cardinality(hit)]
       IN IF \E r \in hit : m.reqs[r].kind = "submit"
          THEN AfterSubmit(m1, d, form) ELSE m1

\* The names of the custom headers.
EnhancedHeader ==
  [Redirect |-> "X-Enhance-Redirect", Submit |-> "X-Enhance-Submit",
   Validate |-> "X-Enhance-Validate"]

\* addHeader(name, value): a new Headers object with the one entry appended.
addHeader(name, value) == <<[name |-> name, value |-> value]>>

\* requestForm(headers, signal) up to the fetch call: reading this._form.action
\* of a null _form throws, which the caller's catch logs.
RequestForm(m, kind, name, headers, c, form) ==
  IF form = 0 THEN [m EXCEPT !.warns = @ + 1]
  ELSE [m EXCEPT !.reqs = Append(@, [kind |-> kind, name |-> name,
                                      headers |-> headers, ctrl |-> c,
                                      form |-> form, stage |-> "fetch",
                                      outcome |-> "pending",
                                      changed |-> FALSE])]

NewController(m, key) ==
  [m EXCEPT !.ctrls = Append(@, [aborted |-> FALSE, reason |-> ""]),
            !.controllers[key] = Len(m.ctrls) + 1]

\* handleInputValidation without line 88: the controller of the field is
\* replaced in the map and never aborted.
HandleInputValidationNoAbort(m, name, value, d, form) ==
  IF value = "" THEN m
  ELSE LET m2 == NewController(m, name)
       IN RequestForm(m2, "validate", name,
                      addHeader(EnhancedHeader.Validate, name),
                      m2.controllers[name], form)

\* handleInputValidation without line 87: an empty value is validated too.
HandleInputValidationOfEmpty(m, name, value, d, form) ==
  LET m1 == Abort(m, m.controllers[name], "Aborted by user", d, form)
      m2 == NewController(m1, name)
  IN RequestForm(m2, "validate", name,
                      addHeader(EnhancedHeader.Validate, name),
                      m2.controllers[name], form)

\* handleInputValidation sending the value of the field, not its name, in the
\* validation header.
HandleInputValidationValueHeader(m, name, value, d, form) ==
  IF value = "" THEN m
  ELSE LET m1 == Abort(m, m.controllers[name], "Aborted by user", d, form)
           m2 == NewController(m1, name)
       IN RequestForm(m2, "validate", name,
                      addHeader(EnhancedHeader.Validate, value),
                      m2.controllers[name], form)

\* handleInputValidation aborting the controller of the submission key as
\* well as the one of its field.
HandleInputValidationAbortsSubmit(m, name, value, d, form) ==
  IF value = "" THEN m
  ELSE LET m0 == Abort(m, m.controllers[FormKey], "Aborted by user", d, form)
           m1 == Abort(m0, m0.controllers[name], "Aborted by user", d, form)
           m2 == NewController(m1, name)
       IN RequestForm(m2, "validate", name,
                      addHeader(EnhancedHeader.Validate, name),
                      m2.controllers[name], form)

\* handleInputValidation with lines 87 and 88 in the other order: the
\* controller of the field is aborted before the value is looked at.
HandleInputValidationAbortsFirst(m, name, value, d, form) ==
  LET m1 == Abort(m, m.controllers[name], "Aborted by user", d, form)
  IN IF value = "" THEN m1
     ELSE LET m2 == NewController(m1, name)
          IN RequestForm(m2, "validate", name,
                         addHeader(EnhancedHeader.Validate, name),
                         m2.controllers[name], form)

\* handleInputValidation(event) up to its await, for event.target.name = name
\* and event.target.value = value.
HandleInputValidation(m, name, value, d, form) ==
  IF value = "" THEN m
  ELSE LET m1 == Abort(m, m.controllers[name], "Aborted by user", d, form)
           m2 == NewController(m1, name)
       IN RequestForm(m2, "validate", name,
                      addHeader(EnhancedHeader.Validate, name),
                      m2.controllers[name], form)

RECURSIVE AbortFieldsOnly(_, _, _, _)
\* The forEach of handleFormValidation skipping the entry of the submission
\* key.
AbortFieldsOnly(m, keys, d, form) ==
  IF keys \ {FormKey} = {} THEN m
  ELSE LET k == CHOOSE x \in keys \ {FormKey} : TRUE
       IN AbortFieldsOnly(Abort(m, m.controllers[k], "AbortError", d, form),
                          keys \ {k}, d, form)

\* The forEach of handleFormValidation aborting the submission controller
\* only, not the controllers of the fields.
AbortOnlyForm(m, keys, d, form) ==
  Abort(m, m.controllers[FormKey], "AbortError", d, form)

RECURSIVE AbortAll(_, _, _, _)
\* this.controllers.forEach((controller) => controller.abort())
AbortAll(m, keys, d, form) ==
  IF keys = {} THEN m
  ELSE LET k == CHOOSE x \in keys : TRUE
       IN AbortAll(Abort(m, m.controllers[k], "AbortError", d, form),
                   keys \ {k}, d, form)

\* handleFormValidation calling event.preventDefault() inside its try, after
\* the request was made: a throwing requestForm skips it.
HandleFormValidationLatePrevent(m, d, form) ==
  LET m1 == AbortAll(m, {k \in Keys : m.controllers[k] # 0}, d, form)
      m2 == NewController(m1, FormKey)
      m3 == RequestForm(m2, "submit", FormKey,
                        addHeader(EnhancedHeader.Submit, "form"),
                        m2.controllers[FormKey], form)
  IN IF form = 0 THEN AfterSubmit(m3, d, form)
     ELSE [m3 EXCEPT !.prevented = @ + 1]

\* handleFormValidation(event): event.preventDefault(), then the handler up to
\* its await; when requestForm throws, the
\* handler returns at once and the listener calls focusFirstInvalidInput.
HandleFormValidation(m, d, form) ==
  LET m0 == [m EXCEPT !.prevented = @ + 1]
      m1 == AbortAll(m0, {k \in Keys : m0.controllers[k] # 0}, d, form)
      m2 == NewController(m1, FormKey)
      m3 == RequestForm(m2, "submit", FormKey,
                        addHeader(EnhancedHeader.Submit, "form"),
                        m2.controllers[FormKey], form)
  IN IF form = 0 THEN AfterSubmit(m3, d, form) ELSE m3

RECURSIVE BlurListeners(_, _, _, _, _, _)
\* One run of handleInputValidation per blur listener of the target.
BlurListeners(m, k, name, value, d, form) ==
  IF k = 0 THEN m
  ELSE BlurListeners(HandleInputValidation(m, name, value, d, form),
                     k - 1, name, value, d, form)

RECURSIVE SubmitListeners(_, _, _, _)
SubmitListeners(m, k, d, form) ==
  IF k = 0 THEN m
  ELSE SubmitListeners(HandleFormValidation(m, d, form), k - 1, d, form)

Machine ==
  [ctrls |-> ctrls, controllers |-> controllers, reqs |-> reqs, warns |-> warns,
   uncaught |-> uncaught, focused |-> focused, prevented |-> prevented]

SetMachine(m) ==
  /\ ctrls' = m.ctrls
  /\ controllers' = m.controllers
  /\ reqs' = m.reqs
  /\ warns' = m.warns
  /\ uncaught' = m.uncaught
  /\ focused' = m.focused
  /\ prevented' = m.prevented

----------------------------------------------------------------------------
(* Events *)

\* A blur event on the connected input n, whose value is value.
Blur(n, value) ==
  /\ dom[n].tag \in {"input", "textarea"}
  /\ dom[n].blur > 0
  /\ IsLive(dom, n) /\ Owned(dom, n)
  /\ Len(ctrls) + (IF value = "" THEN 0 ELSE dom[n].blur) <= MaxControllers
  /\ SetMachine(BlurListeners(Machine, dom[n].blur, dom[n].name, value, dom, _form))
  /\ ev' = [NoEvent EXCEPT !.type = "blur", !.node = n, !.value = value,
                           !.sent = Len(reqs') - Len(reqs)]
  /\ UNCHANGED <<layout, dom, self, _form, _targetSelector,
                 _failTargetSelector, transitions, navLog>>

\* A submit event on the connected form f.
Submit(f) ==
  /\ dom[f].tag = "form"
  /\ dom[f].submit > 0
  /\ IsLive(dom, f) /\ Owned(dom, f)
  /\ Len(ctrls) + dom[f].submit <= MaxControllers
  /\ SetMachine(SubmitListeners(Machine, dom[f].submit, dom, _form))
  /\ ev' = [NoEvent EXCEPT !.type = "submit", !.node = f,
                           !.sent = Len(reqs') - Len(reqs)]
  /\ UNCHANGED <<layout, dom, self, _form, _targetSelector,
                 _failTargetSelector, transitions, navLog>>

----------------------------------------------------------------------------
(* Responses *)

InFlight(r) == reqs[r].stage = "fetch"

\* History: a request in flight remembers in its field changed that the DOM
\* or _form has been changed since it was sent.
Touched(rs, d, form) ==
  IF d = dom /\ form = _form THEN rs
  ELSE [r \in DOMAIN rs |->
          IF rs[r].stage = "fetch" THEN [rs[r] EXCEPT !.changed = TRUE]
          ELSE rs[r]]

\* The rest of handleInputValidation once requestForm has given a document:
\* replace the group of the field and bind the first validate-enabled input
\* of the new group.
ValidationResponse(d, this, form, name, html) ==
  LET re == ReplaceElements(d, this, html, GroupSelector(name), 0)
      newValidateInput ==
        IF re.ret = 0 THEN 0 ELSE QuerySelector(re.dom, re.ret, SelValidate)
  IN [dom |-> IF newValidateInput # 0
              THEN BindEvents(re.dom, form, newValidateInput) ELSE re.dom,
      form |-> form, threw |-> FALSE, cur |-> re.cur, new |-> re.ret,
      defer |-> 0]

\* The 4XX branch without its call of bindEvents.
On4XXNoRebind(d, this, html) ==
  LET re == ReplaceElements(d, this, html, SelForm, 0)
  IN [dom |-> re.dom, form |-> re.ret, threw |-> FALSE, cur |-> re.cur,
      new |-> re.ret, defer |-> 0]

\* The 4XX branch of handleFormValidation: replace the form, adopt the new
\* form (null when nothing was replaced) and bind it; bindEvents throws on a
\* null _form.
On4XX(d, this, html) ==
  LET re == ReplaceElements(d, this, html, SelForm, 0)
  IN [dom |-> IF BindEventsThrows(re.ret, 0) THEN re.dom
              ELSE BindEvents(re.dom, re.ret, 0),
      form |-> re.ret, threw |-> BindEventsThrows(re.ret, 0),
      cur |-> re.cur, new |-> re.ret, defer |-> 0]

\* The 5XX branch: replaceElements(html, this._failTargetSelector, this).
On5XX(d, this, form, html, failSel) ==
  LET re == ReplaceElements(d, this, html, SelOfString(failSel), this)
  IN [dom |-> re.dom, form |-> form, threw |-> re.threw, cur |-> re.cur,
      new |-> re.ret, defer |-> 0]

\* The 200 branch: the target is the closest ancestor-or-self that the target
\* selector matches, else the component; the replacement runs in
\* viewTransition, at once (vt false) or when the browser calls the callback
\* (vt true: defer is the target).  closest throws on an invalid selector.
On200(d, this, form, html, targetSel, vt) ==
  IF ~SelectorValid(targetSel)
  THEN [dom |-> d, form |-> form, threw |-> TRUE, cur |-> 0, new |-> 0,
        defer |-> 0]
  ELSE LET closest == Closest(d, this, SelOfString(targetSel))
           target == IF closest # 0 THEN closest ELSE this
           re == ReplaceElements(d, this, html, SelOfString(targetSel), target)
       IN IF vt
          THEN [dom |-> d, form |-> form, threw |-> FALSE, cur |-> 0,
                new |-> 0, defer |-> target]
          ELSE [dom |-> re.dom, form |-> form, threw |-> FALSE,
                cur |-> re.cur, new |-> re.ret, defer |-> 0]

\* The status branches with every 2XX status taken as the success.
SubmitResponseAnyOk(d, this, form, status, html, targetSel, failSel, vt) ==
  CASE status >= 400 /\ status <= 499 -> On4XX(d, this, html)
    [] status >= 500 /\ status <= 599 -> On5XX(d, this, form, html, failSel)
    [] status >= 200 /\ status <= 299 ->
         On200(d, this, form, html, targetSel, vt)
    [] OTHER ->
         [dom |-> d, form |-> form, threw |-> FALSE, cur |-> 0, new |-> 0,
          defer |-> 0]

\* The status branches of handleFormValidation once requestForm has given a
\* document.
SubmitResponse(d, this, form, status, html, targetSel, failSel, vt) ==
  CASE status >= 400 /\ status <= 499 -> On4XX(d, this, html)
    [] status >= 500 /\ status <= 599 -> On5XX(d, this, form, html, failSel)
    [] status = 200 -> On200(d, this, form, html, targetSel, vt)
    [] OTHER ->
         [dom |-> d, form |-> form, threw |-> FALSE, cur |-> 0, new |-> 0,
          defer |-> 0]

\* handleRedirect(response): window.location.assign unless the value is empty.
HandleRedirect(log, hdr) ==
  IF hdr # <<>> /\ hdr[1] # "" THEN Append(log, hdr[1]) ELSE log

\* The fetch of request r resolves with a response for which the test of
\* requestForm holds (redirected, to another origin): requestForm navigates to response.url and returns no
\* document.  A validation stops there; a submission still looks at the
\* redirect header, stops, and its listener calls focusFirstInvalidInput.
ExternalRedirect(r, redirected, url, hdr) ==
  /\ InFlight(r)
  /\ ExternalRedirected(redirected, url)
  /\ hdr # <<>> => reqs[r].kind = "submit"
  /\ reqs' = [reqs EXCEPT ![r].stage = "done", ![r].outcome = "external"]
  /\ navLog' = IF reqs[r].kind = "submit"
               THEN HandleRedirect(Append(navLog, url), hdr)
               ELSE Append(navLog, url)
  /\ LET m == IF reqs[r].kind = "submit"
              THEN AfterSubmit(Machine, dom, _form) ELSE Machine
     IN focused' = m.focused /\ uncaught' = m.uncaught
  /\ ev' = [NoEvent EXCEPT !.type = "external", !.req = r, !.hdr = hdr,
                           !.redirected = redirected, !.url = url]
  /\ UNCHANGED <<layout, dom, self, _form, _targetSelector,
                 _failTargetSelector, controllers, ctrls, transitions, warns,
                 prevented>>

\* A variant of RespondValidation (below) that treats the response as
\* handleFormValidation does: the group
\* is replaced for status 200 only, and the redirect header is followed.
RespondValidationAsSubmit(r, redirected, status, hdr, body) ==
  /\ InFlight(r)
  /\ reqs[r].kind = "validate"
  /\ \E url \in Urls : ~ExternalRedirected(redirected, url)
  /\ hdr # <<>> => status = 500 /\ hdr[1] # ""
  /\ LET res == IF status = 200
                THEN ValidationResponse(dom, self, _form, reqs[r].name,
                                        Parse(body, layout))
                ELSE [dom |-> dom, cur |-> 0, new |-> 0]
     IN /\ dom' = res.dom
        /\ ev' = [NoEvent EXCEPT !.type = "response", !.req = r,
                                 !.status = status, !.hdr = hdr,
                                 !.body = body,
                                 !.cur = res.cur, !.new = res.new,
                                 !.redirected = redirected]
  /\ reqs' = Touched([reqs EXCEPT ![r].stage = "done",
                                  ![r].outcome = "handled"], dom', _form)
  /\ navLog' = HandleRedirect(navLog, hdr)
  /\ UNCHANGED <<layout, self, _form, _targetSelector, _failTargetSelector,
                 controllers, ctrls, transitions, warns, uncaught,
                 prevented, focused>>

\* The fetch of validation request r resolves with a response for which the
\* test of requestForm fails (not redirected, or redirected to a URL of this
\* origin), response.text() resolves, and
\* handleInputValidation runs to its end.  Between the two awaits of
\* requestForm the handler holds nothing but the response, so the two are one
\* step.  The response carries a status and possibly the redirect header like
\* any other; handleInputValidation destructures only html out of what
\* requestForm returns, so neither reaches ValidationResponse.  A response
\* with the header is drawn with one status and one header value.
RespondValidation(r, redirected, status, hdr, body) ==
  /\ InFlight(r)
  /\ reqs[r].kind = "validate"
  /\ \E url \in Urls : ~ExternalRedirected(redirected, url)
  /\ hdr # <<>> => status = 500 /\ hdr[1] # ""
  /\ LET res == ValidationResponse(dom, self, _form, reqs[r].name,
                                   Parse(body, layout))
     IN /\ dom' = res.dom
        /\ ev' = [NoEvent EXCEPT !.type = "response", !.req = r,
                                 !.status = status, !.hdr = hdr,
                                 !.body = body,
                                 !.cur = res.cur, !.new = res.new,
                                 !.redirected = redirected]
  /\ reqs' = Touched([reqs EXCEPT ![r].stage = "done",
                                  ![r].outcome = "handled"], dom', _form)
  /\ UNCHANGED <<layout, self, _form, _targetSelector, _failTargetSelector,
                 controllers, ctrls, transitions, navLog, warns, uncaught,
                 prevented, focused>>

\* The same for submission request r: handleFormValidation runs to its end,
\* then the submit listener calls focusFirstInvalidInput.  vt: whether the call
\* of viewTransition finds document.startViewTransition.
RespondSubmit(r, redirected, status, hdr, body, vt) ==
  /\ InFlight(r)
  /\ reqs[r].kind = "submit"
  /\ \E url \in Urls : ~ExternalRedirected(redirected, url)
  /\ vt => status = 200
  /\ LET res == SubmitResponse(dom, self, _form, status, Parse(body, layout),
                               _targetSelector, _failTargetSelector, vt)
         m == AfterSubmit(
                [Machine EXCEPT
                   !.reqs[r].stage = "done",
                   !.reqs[r].outcome = IF res.threw THEN "threw" ELSE "handled",
                   !.warns = IF res.threw THEN @ + 1 ELSE @],
                res.dom, res.form)
     IN /\ dom' = res.dom
        /\ _form' = res.form
        /\ transitions' = IF res.defer # 0
                          THEN Append(transitions, [req |-> r, body |-> body,
                                                    target |-> res.defer])
                          ELSE transitions
        /\ reqs' = Touched(m.reqs, res.dom, res.form)
        /\ warns' = m.warns
        /\ uncaught' = m.uncaught
        /\ focused' = m.focused
        /\ ev' = [NoEvent EXCEPT !.type = "response", !.req = r,
                    !.status = status, !.hdr = hdr, !.body = body,
                    !.cur = res.cur, !.new = res.new,
                    !.redirected = redirected]
  /\ navLog' = HandleRedirect(navLog, hdr)
  /\ UNCHANGED <<layout, self, _targetSelector, _failTargetSelector,
                 controllers, ctrls, prevented>>

\* A handler that sends the request again when its fetch fails.
NetworkFailRetry(r) ==
  /\ InFlight(r)
  /\ reqs' = Append([reqs EXCEPT ![r].stage = "done", ![r].outcome = "failed"],
                    [reqs[r] EXCEPT !.stage = "fetch"])
  /\ warns' = warns + 1
  /\ ev' = [NoEvent EXCEPT !.type = "fail", !.req = r, !.sent = 1]
  /\ UNCHANGED <<layout, dom, self, _form, _targetSelector,
                 _failTargetSelector, controllers, ctrls, transitions, navLog,
                 uncaught, prevented, focused>>

\* A handler that deletes the map entry of its key when its fetch fails.
NetworkFailDeletes(r) ==
  /\ InFlight(r)
  /\ LET m0 == [Machine EXCEPT !.reqs[r].stage = "done",
                               !.reqs[r].outcome = "failed",
                               !.warns = @ + 1,
                               !.controllers[reqs[r].name] = 0]
         m == IF reqs[r].kind = "submit" THEN AfterSubmit(m0, dom, _form) ELSE m0
     IN SetMachine(m)
  /\ ev' = [NoEvent EXCEPT !.type = "fail", !.req = r]
  /\ UNCHANGED <<layout, dom, self, _form, _targetSelector,
                 _failTargetSelector, transitions, navLog>>

\* The fetch or the body read of request r fails at network level: the catch
\* of the handler logs it.
NetworkFail(r) ==
  /\ InFlight(r)
  /\ LET m0 == [Machine EXCEPT !.reqs[r].stage = "done",
                               !.reqs[r].outcome = "failed",
                               !.warns = @ + 1]
         m == IF reqs[r].kind = "submit" THEN AfterSubmit(m0, dom, _form) ELSE m0
     IN SetMachine(m)
  /\ ev' = [NoEvent EXCEPT !.type = "fail", !.req = r]
  /\ UNCHANGED <<layout, dom, self, _form, _targetSelector,
                 _failTargetSelector, transitions, navLog>>

\* The browser calls the oldest callback given to startViewTransition.
TransitionRun ==
  /\ transitions # <<>>
  /\ LET t == Head(transitions)
         re == ReplaceElements(dom, self, Parse(t.body, layout),
                               SelOfString(_targetSelector), t.target)
     IN /\ dom' = re.dom
        /\ ev' = [NoEvent EXCEPT !.type = "transition", !.req = t.req,
                    !.body = t.body, !.cur = re.cur, !.new = re.ret]
  /\ transitions' = Tail(transitions)
  /\ reqs' = Touched(reqs, dom', _form)
  /\ UNCHANGED <<layout, self, _form, _targetSelector,
                 _failTargetSelector, controllers, ctrls, navLog, warns,
                 uncaught, prevented, focused>>

Next ==
  \/ \E n \in DOMAIN dom, value \in Values : Blur(n, value)
  \/ \E f \in DOMAIN dom : Submit(f)
  \/ \E r \in DOMAIN reqs, redirected \in BOOLEAN, url \in Urls,
        hdr \in RedirectHeaders : ExternalRedirect(r, redirected, url, hdr)
  \/ \E r \in DOMAIN reqs, redirected \in BOOLEAN, status \in Statuses,
        hdr \in RedirectHeaders, body \in Bodies :
        RespondValidation(r, redirected, status, hdr, body)
  \/ \E r \in DOMAIN reqs, redirected \in BOOLEAN, status \in Statuses,
        hdr \in RedirectHeaders, body \in Bodies, vt \in BOOLEAN :
        RespondSubmit(r, redirected, status, hdr, body, vt)
  \/ \E r \in DOMAIN reqs : NetworkFail(r)
  \/ TransitionRun

Spec == Init /\ [][Next]_vars

----------------------------------------------------------------------------
(* Requests and tokens *)

Token(r) == ctrls[reqs[r].ctrl]

\* Request r is in flight and its token has not been aborted.
Live(r) == InFlight(r) /\ ~Token(r).aborted

Validations == {r \in DOMAIN reqs : reqs[r].kind = "validate"}
Submissions == {r \in DOMAIN reqs : reqs[r].kind = "submit"}

----------------------------------------------------------------------------
(* Properties *)

\* C1: whenever a submission request exists, every validation request that was
\* issued before it has an aborted token and is no longer in flight: the
\* submit handler cancelled (or found cancelled) all of them before its fetch.
C1_ValidationsCancelledBeforeSubmit ==
  \A i \in Validations, j \in Submissions :
    i < j => Token(i).aborted /\ ~InFlight(i)

\* C1 witness: a validation request that was in flight when the form was
\* submitted and was cancelled by the submit handler.
C1_Witness ==
  \E i \in Validations, j \in Submissions :
    /\ i < j
    /\ reqs[i].outcome = "aborted"
    /\ Token(i).reason = "AbortError"
    /\ Live(j)

\* C2: every channel key has at most one request in flight whose token is not
\* aborted; of two validation requests of one field the earlier one has an
\* aborted token, aborted with the reason "Aborted by user" unless a submit
\* came between the two; and right after a blur that sent a request, that
\* request is the only live one of its field.
C2_OneLiveRequestPerKey ==
  /\ \A k \in Keys : Cardinality({r \in DOMAIN reqs : Live(r) /\ reqs[r].name = k}) <= 1
  /\ \A i \in Validations, j \in Validations :
       i < j /\ reqs[i].name = reqs[j].name
       => /\ Token(i).aborted /\ ~InFlight(i)
          /\ (\A k \in Submissions : ~(i < k /\ k < j))
             => Token(i).reason = "Aborted by user"
  /\ ev.type = "blur" /\ ev.sent > 0
     => {r \in DOMAIN reqs : Live(r) /\ reqs[r].name = dom[ev.node].name}
          = {Len(reqs)}

\* C2 witness: two blurs on one field, the first request still in flight at
\* the second blur: it was aborted as superseded and the second one is live.
C2_Witness ==
  \E i \in Validations, j \in Validations :
    /\ i < j /\ reqs[i].name = reqs[j].name
    /\ reqs[i].outcome = "aborted"
    /\ Token(i).reason = "Aborted by user"
    /\ Live(j)
    /\ ev.type = "blur"

\* The step taken last handled the response of a submission.
SubmitResponded == ev.type = "response" /\ reqs[ev.req].kind = "submit"

\* The step taken last replaced a node of the live document.
LiveReplaced == ev.cur # 0 /\ ev.new # 0 /\ IsLive(dom, ev.new)

\* C3 as claimed: whenever a step replaces a node of the live document on
\* behalf of a request, the token of that request is not aborted.
C3_AbortedNeverMutates ==
  ev.type \in {"response", "transition"} /\ LiveReplaced
  => ~Token(ev.req).aborted

\* C3 amended: a request whose token is aborted while the request is in flight
\* ends at once on the warning path (its fetch rejects, one warning is logged,
\* neither the DOM nor _form changes), and from then on no response is handled
\* and no replacement is run for it.  No response is ever handled for a
\* request whose token is aborted.
C3_CancelledInFlightNeverMutates ==
  /\ [](\A r \in DOMAIN reqs : Token(r).aborted => ~InFlight(r))
  /\ [](ev.type = "response" => ~Token(ev.req).aborted)
  /\ [][\A r \in DOMAIN reqs :
          /\ InFlight(r) /\ Token(r)'.aborted
             => /\ reqs'[r].outcome = "aborted"
                /\ warns' > warns
                /\ dom' = dom /\ _form' = _form /\ transitions' = transitions
          /\ reqs[r].outcome = "aborted"
             => /\ reqs'[r] = reqs[r]
                /\ ~(ev'.type \in {"response", "transition"} /\ ev'.req = r)
                /\ \A i \in DOMAIN transitions' : transitions'[i].req # r]_vars

\* C3 witness: a request was cancelled in flight, and the response of another
\* request has just replaced a node of the live document.
C3_Witness ==
  /\ \E r \in DOMAIN reqs : reqs[r].outcome = "aborted"
  /\ ev.type = "response" /\ LiveReplaced
  /\ warns > 0

\* C4: a submission response that carries the redirect header makes the last
\* window.location.assign call one with the value of the header, and no
\* replacement is performed or scheduled for it.
C4_RedirectHeaderNavigatesOnly ==
  SubmitResponded /\ ev.hdr # <<>>
  => /\ navLog # <<>> /\ navLog[Len(navLog)] = ev.hdr[1]
     /\ ev.cur = 0 /\ ev.new = 0
     /\ \A i \in DOMAIN transitions : transitions[i].req # ev.req

\* The form the component was constructed with.
InitialForm == QuerySelector(Page(layout, FALSE), ComponentOf(layout), SelForm)

\* The document of response body has a form.
HasForm(body) == QuerySelector(Parse(body, layout), 1, SelForm) # 0

\* The form f is bound: one submit listener, and one blur listener on each of
\* its validate-enabled inputs.
Bound(f) ==
  /\ dom[f].submit = 1
  /\ \A n \in QuerySelectorAll(dom, f, SelValidate) : dom[n].blur = 1

\* An event on the form that a 4XX response brought, while it is the form the
\* component owns, sends one request built from that form.
EventsOnNewFormSend ==
  /\ ev.type = "submit" /\ ev.node = _form /\ ev.node # InitialForm
     => /\ ev.sent = 1
        /\ reqs[Len(reqs)].kind = "submit" /\ reqs[Len(reqs)].form = ev.node
  /\ /\ ev.type = "blur" /\ ev.value # ""
     /\ Closest(dom, ev.node, SelForm) = _form /\ _form # InitialForm
     => /\ ev.sent = 1
        /\ reqs[Len(reqs)].kind = "validate"
        /\ reqs[Len(reqs)].name = dom[ev.node].name
        /\ reqs[Len(reqs)].form = _form

\* C5 as claimed: after a 4XX submission response whose body has a form, the
\* form the component owns is the form of the response, it is in the live
\* document and bound, and events on it send requests built from it.
C5_FormReplacedAndRebound ==
  /\ SubmitResponded /\ ev.status >= 400 /\ ev.status <= 499 /\ HasForm(ev.body)
     => /\ ev.new # 0 /\ _form = ev.new /\ dom[_form].tag = "form"
        /\ ev.new > Len(Page(layout, FALSE))
        /\ IsLive(dom, _form)
        /\ Bound(_form)
  /\ EventsOnNewFormSend

\* C5 amended: the same, the new form being in the live document when the
\* component is (a component that a success replacement has taken out of the
\* document gets the new form in its detached subtree).
C5_FormOfComponentReplacedAndRebound ==
  /\ SubmitResponded /\ ev.status >= 400 /\ ev.status <= 499 /\ HasForm(ev.body)
     => /\ ev.new # 0 /\ _form = ev.new /\ dom[_form].tag = "form"
        /\ ev.new > Len(Page(layout, FALSE))
        /\ Closest(dom, _form, [kind |-> "tag", arg |-> "enhance-form"]) = self
        /\ IsLive(dom, self) <=> IsLive(dom, _form)
        /\ Bound(_form)
  /\ EventsOnNewFormSend

\* C5 witness: a blur on an input of a form that a 422 response brought has
\* sent a validation request built from that form.
C5_Witness ==
  /\ ev.type = "blur" /\ ev.sent = 1
  /\ _form # InitialForm /\ IsLive(dom, _form)
  /\ Closest(dom, ev.node, SelForm) = _form
  /\ reqs[Len(reqs)].form = _form
  /\ \E r \in Submissions : reqs[r].outcome = "handled"

\* The selector matches a node of the document of response body.
BodyHas(body, sel) == QuerySelector(Parse(body, layout), 1, sel) # 0

\* The selector matches a node of the live document.
LiveHas(sel) == \E n \in DOMAIN dom : IsLive(dom, n) /\ Matches(dom, n, sel)

\* The step taken last ran the replacement of a status-200 response that had
\* no redirect header: in the handler, or in the view-transition callback.
SuccessApplied ==
  \/ /\ SubmitResponded /\ ev.status = 200 /\ ev.hdr = <<>>
     /\ \A i \in DOMAIN transitions : transitions[i].req # ev.req
  \/ ev.type = "transition"

\* The tables d1 and d2 differ in nothing but the replacement of cur by new:
\* cur lost its parent, that parent has new in the place of cur, and every
\* other node of d1 is as it was.
OnlyReplaced(d1, d2, cur, new) ==
  /\ d1[cur].parent # 0
  /\ d2[cur] = [d1[cur] EXCEPT !.parent = 0]
  /\ d2[new].parent = d1[cur].parent
  /\ \A n \in DOMAIN d1 :
       n # cur =>
         d2[n] = IF n = d1[cur].parent
                 THEN [d1[n] EXCEPT
                         !.kids = [j \in 1..Len(@) |->
                                     IF @[j] = cur THEN new ELSE @[j]]]
                 ELSE d1[n]

\* C6: when the replacement of a status-200 response without redirect header
\* runs, the target selector matching in the response and in the live
\* document, a live node that the target selector matches is replaced by the
\* node of the response, and nothing else of the live document changes.
C6_SuccessTargetReplaced ==
  [][/\ SuccessApplied'
     /\ BodyHas(ev'.body, SelOfString(_targetSelector))
     /\ LiveHas(SelOfString(_targetSelector))
     => /\ ev'.cur # 0 /\ ev'.new # 0
        /\ IsLive(dom, ev'.cur)
        /\ Matches(dom, ev'.cur, SelOfString(_targetSelector))
        /\ Matches(dom', ev'.new, SelOfString(_targetSelector))
        /\ OnlyReplaced(dom, dom', ev'.cur, ev'.new)]_vars

\* C7: a 5XX submission response replaces nothing but a live node that the
\* fail-target selector matches; the component and its form stay in the live
\* document.
C7_OnlyFailTargetReplaced ==
  [][SubmitResponded' /\ ev'.status >= 500 /\ ev'.status <= 599
     => /\ ev'.cur # 0
           => /\ Matches(dom, ev'.cur, SelOfString(_failTargetSelector))
              /\ OnlyReplaced(dom, dom', ev'.cur, ev'.new)
        /\ IsLive(dom, self) => IsLive(dom', self)
        /\ _form # 0 /\ IsLive(dom, _form) => IsLive(dom', _form) /\ _form' = _form
        /\ \A n \in DOMAIN dom :
             IsLive(dom, n) /\ Matches(dom, n, SelOfString(_targetSelector))
             /\ ~Matches(dom, n, SelOfString(_failTargetSelector))
             => IsLive(dom', n)]_vars

\* C8: a blur event on an input whose value is empty sends no request.
C8_EmptyBlurSendsNothing ==
  [][ev'.type = "blur" /\ ev'.value = "" => reqs' = reqs]_vars

\* C8 witness: an empty input lost focus while a validation request of its
\* field was in flight, and nothing was sent.
C8_Witness ==
  /\ ev.type = "blur" /\ ev.value = "" /\ ev.sent = 0
  /\ \E r \in Validations : Live(r) /\ reqs[r].name = dom[ev.node].name

\* C9: when a request has failed at network level or was cancelled, neither
\* the DOM nor _form has changed since the request was sent.
C9_StateAsBeforeRequest ==
  \A r \in DOMAIN reqs :
    reqs[r].outcome \in {"failed", "aborted"} => ~reqs[r].changed

\* C9: the step in which a request fails at network level or is cancelled
\* changes neither the DOM nor _form and schedules no replacement; the failure
\* of a request sends no request and creates no controller.
C9_FailureLeavesStateUnchanged ==
  [][(\E r \in DOMAIN reqs :
        InFlight(r) /\ reqs'[r].outcome \in {"failed", "aborted"})
     => /\ dom' = dom /\ _form' = _form /\ transitions' = transitions
        /\ warns' > warns
        /\ ev'.type = "fail" => Len(reqs') = Len(reqs) /\ ctrls' = ctrls
                                /\ controllers' = controllers]_vars

\* C9 witness: one request has failed at network level, another one was
\* cancelled.
C9_Witness ==
  /\ \E r \in DOMAIN reqs : reqs[r].outcome = "failed"
  /\ \E r \in DOMAIN reqs : reqs[r].outcome = "aborted"

\* C10: every submit event on the form of the component sends a submission
\* request, and every blur of a validate-enabled input with a value sends a
\* validation request.
C10_StaysInteractive ==
  /\ ev.type = "submit" => ev.sent >= 1
  /\ ev.type = "blur" /\ ev.value # "" => ev.sent >= 1

\* C11: a submission response with a status in 400..499 whose body has no
\* form changes nothing in the DOM, leaves _form what it was, and raises no
\* error: no warning is logged and no error escapes.
C11_MissingFormIsNoOp ==
  [][/\ SubmitResponded' /\ ev'.status >= 400 /\ ev'.status <= 499
     /\ ~HasForm(ev'.body) /\ _form # 0
     => /\ dom' = dom
        /\ _form' = _form
        /\ warns' = warns /\ uncaught' = uncaught
        /\ reqs'[ev'.req].outcome = "handled"]_vars

\* The forms of the component that are in the live document.
LiveForms ==
  {f \in DOMAIN dom : dom[f].tag = "form" /\ IsLive(dom, f) /\ Owned(dom, f)}

\* C12: every live form of the component has exactly one submit listener and
\* each of its validate-enabled inputs exactly one blur listener; a blur with
\* a value sends exactly one validation request and a submit exactly one
\* submission request.
C12_ListenersKept ==
  /\ \A f \in LiveForms : Bound(f)
  /\ ev.type = "blur" /\ ev.value # "" => ev.sent = 1
  /\ ev.type = "submit" => ev.sent = 1

\* The values request r carries for the header named h.
HeaderValues(r, h) ==
  {reqs[r].headers[i].value :
     i \in {j \in DOMAIN reqs[r].headers : reqs[r].headers[j].name = h}}

\* C13: every request carries exactly one header entry; a submission carries
\* X-Enhance-Submit: form and no validation header, a validation carries
\* X-Enhance-Validate with the name of its field and no submit header; the
\* request a blur has just sent names the input that lost focus.
C13_OneDiscriminatorHeader ==
  /\ \A r \in DOMAIN reqs :
       /\ Len(reqs[r].headers) = 1
       /\ reqs[r].kind = "submit"
          => /\ HeaderValues(r, EnhancedHeader.Submit) = {"form"}
             /\ HeaderValues(r, EnhancedHeader.Validate) = {}
       /\ reqs[r].kind = "validate"
          => /\ HeaderValues(r, EnhancedHeader.Validate) = {reqs[r].name}
             /\ HeaderValues(r, EnhancedHeader.Submit) = {}
  /\ ev.type = "blur" /\ ev.sent > 0
     => HeaderValues(Len(reqs), EnhancedHeader.Validate) = {dom[ev.node].name}

\* C13 witness: a validation request of field a and a submission request have
\* been sent, the submission just now.
C13_Witness ==
  /\ ev.type = "submit" /\ ev.sent = 1
  /\ \E r \in Validations : reqs[r].name = "a"
  /\ \E r \in Submissions : Live(r)

\* C14: every run of the submit handler calls event.preventDefault(): a submit
\* event raises the number of calls by the number of submit listeners of the
\* form, which is at least one, whether or not a request is sent.
C14_SubmitAlwaysPrevented ==
  [][ev'.type = "submit"
     => /\ dom[ev'.node].submit >= 1
        /\ prevented' = prevented + dom[ev'.node].submit]_vars

\* C14 witness: a submit event whose default was prevented although the form
\* reference was missing and no request was sent.
C14_Witness ==
  /\ ev.type = "submit" /\ ev.sent = 0 /\ _form = 0
  /\ prevented = 2

\* The step from d1 to d2 took at most one node of d1 out of its parent, the
\* node cur (0: none), and changed no other node of d1.
AtMostOneReplaced(d1, d2, cur) ==
  IF cur # 0 THEN \E new \in DOMAIN d2 \ DOMAIN d1 : OnlyReplaced(d1, d2, cur, new)
  ELSE \A n \in DOMAIN d1 : d2[n] = d1[n]

\* C15: the handling of a submission response performs at most one
\* replacement, and the status alone chooses it: the node put in is the form
\* of the response for 400..499, its fail-target element for 500..599, its
\* target element for 200 (at once or in the view transition); for any other
\* status nothing is replaced or scheduled and the DOM stays as it is.
C15_ReplacementChosenByStatus ==
  [][SubmitResponded'
     => /\ AtMostOneReplaced(dom, dom', ev'.cur)
        /\ ev'.cur # 0 => ev'.new # 0
        /\ transitions' # transitions
           => /\ ev'.status = 200 /\ ev'.new = 0 /\ dom' = dom
              /\ Len(transitions') = Len(transitions) + 1
        /\ ev'.new # 0
           => \/ /\ ev'.status >= 400 /\ ev'.status <= 499
                 /\ dom'[ev'.new].tag = "form"
              \/ /\ ev'.status >= 500 /\ ev'.status <= 599
                 /\ Matches(dom', ev'.new, SelOfString(_failTargetSelector))
              \/ /\ ev'.status = 200
                 /\ Matches(dom', ev'.new, SelOfString(_targetSelector))
        /\ ~(ev'.status >= 400 /\ ev'.status <= 599) /\ ev'.status # 200
           => dom' = dom /\ _form' = _form /\ transitions' = transitions]_vars

\* C15 witness: a 204 response whose body holds the form and both targets was
\* handled and nothing was replaced.
C15_Witness ==
  /\ SubmitResponded /\ ev.status = 204 /\ ev.body = "page"
  /\ ev.new = 0 /\ transitions = <<>>
  /\ reqs[ev.req].outcome = "handled"

\* C16 as claimed: every entry of the controllers map is the controller of a
\* request in flight, so the map is empty when no request is in flight.
C16_MapHoldsOnlyInFlight ==
  \A k \in Keys :
    controllers[k] # 0
    => \E r \in DOMAIN reqs : InFlight(r) /\ reqs[r].ctrl = controllers[k]

\* C16 amended: an entry of the controllers map is never removed and only
\* replaced by a newer controller; the controller of every live request is
\* the entry of its key; every request was given the controller that was the
\* entry of its key when it was sent.
C16_EntriesAddedNeverRemoved ==
  /\ [](\A r \in DOMAIN reqs :
          /\ Live(r) => controllers[reqs[r].name] = reqs[r].ctrl
          /\ controllers[reqs[r].name] >= reqs[r].ctrl)
  /\ [][\A k \in Keys :
          /\ controllers[k] # 0 => controllers'[k] >= controllers[k]
          /\ controllers'[k] # controllers[k]
             => controllers'[k] > Len(ctrls) /\ controllers'[k] <= Len(ctrls')]_vars

\* C16 witness: requests were sent, none is in flight any more, and the map
\* still holds the controllers of two keys.
C16_Witness ==
  /\ Len(reqs) = 2
  /\ \A r \in DOMAIN reqs : ~InFlight(r)
  /\ \E r \in DOMAIN reqs : reqs[r].outcome = "handled"
  /\ Cardinality({k \in Keys : controllers[k] # 0}) = 2

\* C17 as claimed: a submit event leaves a submission that is in flight and
\* not cancelled as it is.
C17_SubmitSparesEarlierSubmission ==
  [][ev'.type = "submit" => \A r \in Submissions : Live(r) => Live(r)']_vars

\* C17 amended: a submit event aborts every controller of the map, the one of
\* the submission key included: a submission in flight is cancelled (its
\* token aborted with the default reason, its handler on the warning path),
\* and after the event no request sent before it is live.
C17_SubmitAbortsEarlierSubmission ==
  [][ev'.type = "submit"
     => /\ \A c \in DOMAIN ctrls : ctrls'[c].aborted
        /\ \A r \in DOMAIN reqs : ~Live(r)'
        /\ \A r \in Submissions :
             Live(r) => /\ reqs'[r].outcome = "aborted"
                        /\ Token(r)'.reason = "AbortError"
                        /\ warns' > warns]_vars

\* C17 witness: a second submit came while the first submission was in flight:
\* the first one is cancelled, the second one is live.
C17_Witness ==
  /\ ev.type = "submit" /\ ev.sent = 1
  /\ \E i \in Submissions, j \in Submissions :
       /\ i < j /\ reqs[i].outcome = "aborted"
       /\ Token(i).reason = "AbortError"
       /\ Live(j)

\* A submission that was in flight comes to its end in the step.
SubmissionEnds == \E r \in Submissions : InFlight(r) /\ ~InFlight(r)'

\* C18 as claimed: focus moves only in a step that handles a submission
\* response with a status in 400..499.
C18_FocusOnlyOn4XX ==
  [][focused' # focused
     => SubmitResponded' /\ ev'.status >= 400 /\ ev'.status <= 499]_vars

\* C18 amended: focus moves only when a submission comes to its end, however
\* it ends, and every submission that ends (response of any status, external
\* redirect, network failure, cancellation) leaves the focus on the first
\* aria-invalid input of the owned form when that input is in the live
\* document, and where it was otherwise.
C18_FocusAfterEverySubmission ==
  [][/\ focused' # focused => SubmissionEnds
     /\ SubmissionEnds
        => focused' = FocusFirstInvalidInput(dom', _form', focused).focused]_vars

\* C18 witness: the only submission failed at network level, and the focus
\* is on an invalid input that a validation response had brought.
C18_Witness ==
  /\ ev.type = "fail" /\ reqs[ev.req].kind = "submit"
  /\ Cardinality(Submissions) = 1
  /\ focused # 0 /\ dom[focused].invalid /\ IsLive(dom, focused)

\* The step taken last handled the response of a validation.
ValidationResponded == ev.type = "response" /\ reqs[ev.req].kind = "validate"

\* Node g of table d is the innermost grouping element around a control
\* named name: the group selector matches it and none of its descendants.
InnermostGroup(d, g, name) ==
  /\ Matches(d, g, GroupSelector(name))
  /\ \A n \in Range(Descendants(d, g)) : ~Matches(d, n, GroupSelector(name))

\* C19: a validation response that replaces a live node replaces the
\* innermost grouping element around a control of the field, and changes no
\* other node of the document.
C19_InnermostGroupReplaced ==
  [][ValidationResponded' /\ ev'.cur # 0
     => /\ InnermostGroup(dom, ev'.cur, reqs[ev'.req].name)
        /\ OnlyReplaced(dom, dom', ev'.cur, ev'.new)]_vars

\* C20: a step that ends a request on the external-redirect path belongs to a
\* response that was redirected to another origin; it calls
\* window.location.assign with the final URL, parses nothing, replaces and
\* schedules nothing, for validations and submissions alike (a submission
\* then still passes the response to handleRedirect).  A response that
\* was redirected within the origin is parsed and handled: it navigates
\* nowhere but to a redirect header's value, and a validation response whose
\* body holds the group of its field replaces the live group.
C20_ExternalRedirectNavigatesOnly ==
  [][/\ ev'.type = "external"
        => /\ ev'.redirected /\ ~isInternalUrl(ev'.url)
           /\ Len(navLog') > Len(navLog)
           /\ navLog'[Len(navLog) + 1] = ev'.url
           /\ dom' = dom /\ _form' = _form /\ transitions' = transitions
           /\ ev'.cur = 0 /\ ev'.new = 0
           /\ reqs'[ev'.req].outcome = "external"
     /\ ev'.type = "response" /\ ev'.redirected
        => /\ navLog' = IF reqs[ev'.req].kind = "submit"
                         THEN HandleRedirect(navLog, ev'.hdr) ELSE navLog
           /\ reqs'[ev'.req].outcome \in {"handled", "threw"}
           /\ /\ reqs[ev'.req].kind = "validate"
              /\ BodyHas(ev'.body, GroupSelector(reqs[ev'.req].name))
              /\ QuerySelector(dom, self, GroupSelector(reqs[ev'.req].name)) # 0
              => ev'.new # 0 /\ dom' # dom]_vars

\* C20 witness: a validation and a submission have both ended on the
\* external-redirect path, two navigations were made, and the document is as
\* the server rendered it.
C20_Witness ==
  /\ ev.type = "external"
  /\ \E r \in Validations : reqs[r].outcome = "external"
  /\ \E r \in Submissions : reqs[r].outcome = "external"
  /\ navLog = <<"https://ext/out", "https://ext/out">>
  /\ Len(dom) = Len(Page(layout, FALSE))

\* C21 as claimed: while a submission is live no validation is live, and a
\* validation response never replaces a live node after the response of a
\* submission sent before that validation was handled.
C21_NoValidationDuringSubmission ==
  /\ (\E j \in Submissions : Live(j)) => \A i \in Validations : ~Live(i)
  /\ ValidationResponded /\ LiveReplaced
     => \A j \in Submissions :
          j < ev.req => reqs[j].outcome \notin {"handled", "threw"}

\* C21 amended: a validation that is live together with a submission was
\* sent after it, by a blur on a field whose name is not the submission key;
\* a submit event leaves no validation live, and such a blur leaves a live
\* submission live.
C21_ValidationOnlyAfterSubmission ==
  /\ [](\A i \in Validations, j \in Submissions :
          Live(i) /\ Live(j) => j < i /\ reqs[i].name # FormKey)
  /\ [][/\ ev'.type = "submit" => \A i \in Validations : ~Live(i)'
        /\ ev'.type = "blur" /\ dom[ev'.node].name # FormKey
           => \A j \in Submissions : Live(j) => Live(j)']_vars

\* C21 witness: a validation sent while a submission was in flight had its
\* response applied to the form that the 4XX response of that submission
\* had brought.
C21_Witness ==
  /\ ValidationResponded /\ LiveReplaced
  /\ _form # InitialForm /\ _form # 0
  /\ \E j \in Submissions : j < ev.req /\ reqs[j].outcome = "handled"
  /\ Closest(dom, ev.new, SelForm) = _form

\* C22: a blur event, on a field of any name, neither cancels a live
\* submission nor replaces the entry of the submission key while a
\* submission is live.
C22_BlurSparesSubmission ==
  [][ev'.type = "blur" /\ (\E j \in Submissions : Live(j))
     => /\ \A j \in Submissions : Live(j) => Live(j)'
        /\ controllers'[FormKey] = controllers[FormKey]]_vars

\* C23: a blur event on an input whose value is empty changes nothing of the
\* component or the page: the controllers map, the controllers, the requests
\* and the DOM are as before, so every request that was live stays live and
\* its response can still be handled.
C23_EmptyBlurChangesNothing ==
  [][ev'.type = "blur" /\ ev'.value = ""
     => /\ controllers' = controllers /\ ctrls' = ctrls
        /\ \A r \in DOMAIN reqs : Live(r) => Live(r)' /\ reqs'[r] = reqs[r]
        /\ UNCHANGED <<dom, _form, transitions, navLog, warns, uncaught,
                       prevented, focused>>]_vars

\* C23 witness: an input lost focus with an empty value while the validation
\* sent by an earlier blur on its field and a validation of another field
\* were live: both still are, and the map still holds their controllers.
C23_Witness ==
  /\ ev.type = "blur" /\ ev.value = ""
  /\ \E r \in Validations :
       /\ Live(r) /\ reqs[r].name = dom[ev.node].name
       /\ controllers[reqs[r].name] = reqs[r].ctrl
  /\ Cardinality({r \in Validations : Live(r)}) = 2
  /\ warns = 0

\* C24: the handling of a validation response depends neither on its status
\* nor on the redirect header: whatever the two are, the step is the one
\* ValidationResponse computes from the body alone; the group of the field is
\* replaced when the component holds one and the body holds one; the
\* browser is not navigated; the owned form reference stays as it is.
C24_ValidationIgnoresStatusAndHeader ==
  [][ValidationResponded'
     => LET name == reqs[ev'.req].name
            res == ValidationResponse(dom, self, _form, name,
                                      Parse(ev'.body, layout))
        IN /\ ev'.status \in Statuses /\ ev'.hdr \in RedirectHeaders
           /\ dom' = res.dom /\ ev'.cur = res.cur /\ ev'.new = res.new
           /\ /\ BodyHas(ev'.body, GroupSelector(name))
              /\ QuerySelector(dom, self, GroupSelector(name)) # 0
              => /\ ev'.cur # 0 /\ ev'.new # 0
                 /\ Matches(dom', ev'.new, GroupSelector(name))
                 /\ IsLive(dom, ev'.cur) => IsLive(dom', ev'.new)
           /\ navLog' = navLog
           /\ _form' = _form]_vars

\* C24 witness: a validation response with status 500 and the redirect header
\* was handled: the live group of the field was replaced, the browser went
\* nowhere and the component still owns the form it started with.
C24_Witness ==
  /\ ValidationResponded
  /\ ev.status = 500 /\ ev.hdr = <<"/next">>
  /\ LiveReplaced
  /\ Matches(dom, ev.new, GroupSelector(reqs[ev.req].name))
  /\ navLog = <<>>
  /\ _form = InitialForm

====
